---- MODULE Spec2Model ----
(***************************************************************************)
(* Model of the cost-attribution and time-windowing pipeline of            *)
(* burn-rate-monitor (src/brmonitor/calculator.py, data_loader.py).        *)
(*                                                                         *)
(* Conventions.                                                            *)
(*   - A datetime is the number of seconds since local midnight of day 0.  *)
(*   - A timedelta is a number of seconds.                                 *)
(*   - None is the model value None.                                       *)
(***************************************************************************)
EXTENDS Integers, Sequences, FiniteSets, TLC

VARIABLES
    entries,    \* list[UsageEntry] handed to filter_entries_by_view
    view,       \* the view argument of the last call
    now,        \* datetime.now() as read by the last call
    result,     \* the list returned by the last call
    data,       \* list[MinuteData] returned by aggregate_by_minute
    pricing_log,    \* the price-history log file (CONFIG.pricing_history_log)
    rate_log,       \* the channel-multiplier history log file
    upstream_log,   \* the channel-switch log file (CONFIG.upstream_log)
    lookup,         \* the last history lookup made, with its result
    line,           \* the line handed to parse_jsonl_line
    parsed,         \* how the last parse_jsonl_line call ended
    files,          \* the files os.walk yields under the data directories
    loaded,         \* how the last load_jsonl_files call ended
    time,               \* time.time()
    history_cache,      \* _pricing_history_cache, _rate_history_cache, _upstream_cache
    history_cache_time, \* the three _..._cache_time globals
    remote_source,      \* what LITELLM_PRICING_URL serves
    pricing_cache,      \* _pricing_cache
    last_load,          \* per cache, the time.time() of the last read of its source
    read,               \* the last cached read made, with what it observed
    pc,                 \* per thread, its position in a history loader
    call                \* per thread, the locals of its call

viewVars == <<entries, view, now, result, data>>
logVars == <<pricing_log, rate_log, upstream_log>>

parseVars == <<line, parsed>>
loadVars == <<files, loaded>>
cacheVars == <<time, history_cache, history_cache_time, remote_source, pricing_cache,
               last_load, read>>
threadVars == <<pc, call>>

vars == <<entries, view, now, result, data, pricing_log, rate_log, upstream_log, lookup,
          line, parsed, files, loaded, time, history_cache, history_cache_time,
          remote_source, pricing_cache, last_load, read, pc, call>>

-----------------------------------------------------------------------------
(* Units of datetime / timedelta                                           *)

SecondsPerMinute == 60
SecondsPerHour == 3600
HoursPerDay == 24
SecondsPerDay == HoursPerDay * SecondsPerHour
HalfHour == SecondsPerHour \div 2

-----------------------------------------------------------------------------
(* Bounds of the checked instances                                         *)

MaxEntries == 3        \* longest entry list
MaxHalfHours == 22     \* entry timestamps lie on a half-hour grid of this length
MaxNowHours == 17      \* clock readings lie on an hour grid of this length
MaxRecords == 4        \* most lines in a history log
MaxLogTime == 3        \* effective-from times of log lines are 1..MaxLogTime
MaxAggEntries == 3     \* longest entry list handed to the aggregator
MaxTokens == 2         \* integer token fields of a line are -1..MaxTokens
MaxParseTime == 2      \* timestamps of lines are 0..MaxParseTime (UTC seconds)
MaxFiles == 2          \* most files under the data directories
MaxLines == 2          \* most non-blank lines of a file
MaxTicks == 2          \* the clock advances at most MaxTicks times
MaxFileLines == 2      \* most lines of a history log while the caches are in use

-----------------------------------------------------------------------------
(* Optional values: None is the empty tuple, a present value x is <<x>>.   *)

None == <<>>
Some(x) == <<x>>
Val(o) == o[1]

\* parse_jsonl_line has not been called.
NoParse == line = None /\ parsed = None

\* load_jsonl_files has not been called.
NoLoad == files = <<>> /\ loaded = None

\* No request has been served.
NoRequest == view = None /\ now = None /\ result = None /\ data = None

-----------------------------------------------------------------------------
(* UsageEntry (data_loader.py)                                             *)

UsageEntry(timestamp, cost_usd, original_cost_usd, model, input_tokens, output_tokens, cache_creation_tokens, cache_read_tokens, upstream) ==
    [timestamp |-> timestamp, cost_usd |-> cost_usd,
     original_cost_usd |-> original_cost_usd, model |-> model,
     input_tokens |-> input_tokens, output_tokens |-> output_tokens,
     cache_creation_tokens |-> cache_creation_tokens,
     cache_read_tokens |-> cache_read_tokens, upstream |-> upstream]

RECURSIVE InsertByTimestamp(_, _)
\* One step of a stable sort: x goes after every element whose timestamp is <= its own.
InsertByTimestamp(x, s) ==
    IF s = <<>> THEN <<x>>
    ELSE IF Head(s).timestamp <= x.timestamp
         THEN <<Head(s)>> \o InsertByTimestamp(x, Tail(s))
         ELSE <<x>> \o s

RECURSIVE SortByTimestamp(_)
\* sorted(entries, key=lambda e: e.timestamp): stable, ascending.
SortByTimestamp(s) ==
    IF s = <<>> THEN <<>>
    ELSE InsertByTimestamp(s[Len(s)], SortByTimestamp(SubSeq(s, 1, Len(s) - 1)))

-----------------------------------------------------------------------------
(* Historical rate resolver (data_loader.py)                               *)
(*                                                                         *)
(* A log file is [exists, lines]: whether the path exists, and its         *)
(* well-formed lines in file order, each [dt, key, value]: the             *)
(* effective-from time, the model or channel, and the price row or         *)
(* multiplier (for the channel-switch log the key is the channel and there *)
(* is no value).                                                           *)

LogFile(exists, lines) == [exists |-> exists, lines |-> lines]

AbsentLog == LogFile(FALSE, <<>>)

\* None of the three logs exists.
NoLogs == pricing_log = AbsentLog /\ rate_log = AbsentLog /\ upstream_log = AbsentLog

RECURSIVE InsertByDt(_, _)
\* One step of a stable sort: x goes after every record whose dt is <= its own.
InsertByDt(x, s) ==
    IF s = <<>> THEN <<x>>
    ELSE IF Head(s).dt <= x.dt
         THEN <<Head(s)>> \o InsertByDt(x, Tail(s))
         ELSE <<x>> \o s

RECURSIVE SortByDt(_)
\* records.sort(key=lambda x: x[0]): stable, ascending.
SortByDt(s) ==
    IF s = <<>> THEN <<>>
    ELSE InsertByDt(s[Len(s)], SortByDt(SubSeq(s, 1, Len(s) - 1)))

\* Mutant of LoadHistory: the records are returned in file order, unsorted.
LoadHistoryUnsorted(log) == IF ~log.exists THEN <<>> ELSE log.lines

\* _load_pricing_history / _load_rate_history / _load_upstream_log on a cold
\* cache: the records of the file, sorted by effective-from time.
LoadHistory(log) == IF ~log.exists THEN <<>> ELSE SortByDt(log.lines)

RECURSIVE PricingScan(_, _, _, _, _)
\* The loop of _get_pricing_at_time from record i on, pricing being the value
\* held so far.
PricingScan(records, model, timestamp, i, pricing) ==
    IF i > Len(records) THEN pricing
    ELSE IF records[i].key = model /\ records[i].dt <= timestamp
         THEN PricingScan(records, model, timestamp, i + 1, Some(records[i].value))
    ELSE IF records[i].key = model /\ records[i].dt > timestamp
         THEN pricing
    ELSE PricingScan(records, model, timestamp, i + 1, pricing)

\* _get_pricing_at_time(model, timestamp)
GetPricingAtTime(log, model, timestamp) ==
    LET records == LoadHistory(log)
    IN  IF records = <<>> THEN None
        ELSE PricingScan(records, model, timestamp, 1, None)

RECURSIVE RateScanStrict(_, _, _, _, _)
\* Mutant of RateScan: a record takes effect only after its effective-from time.
RateScanStrict(records, upstream, timestamp, i, rate) ==
    IF i > Len(records) THEN rate
    ELSE IF records[i].key = upstream /\ records[i].dt < timestamp
         THEN RateScanStrict(records, upstream, timestamp, i + 1, Some(records[i].value))
    ELSE IF records[i].key = upstream /\ records[i].dt >= timestamp
         THEN rate
    ELSE RateScanStrict(records, upstream, timestamp, i + 1, rate)

RECURSIVE RateScan(_, _, _, _, _)
\* The loop of _get_rate_at_time from record i on, rate being the value held so far.
RateScan(records, upstream, timestamp, i, rate) ==
    IF i > Len(records) THEN rate
    ELSE IF records[i].key = upstream /\ records[i].dt <= timestamp
         THEN RateScan(records, upstream, timestamp, i + 1, Some(records[i].value))
    ELSE IF records[i].key = upstream /\ records[i].dt > timestamp
         THEN rate
    ELSE RateScan(records, upstream, timestamp, i + 1, rate)

\* _get_rate_at_time(upstream, timestamp)
GetRateAtTime(log, upstream, timestamp) ==
    LET records == LoadHistory(log)
    IN  IF records = <<>> THEN None
        ELSE RateScan(records, upstream, timestamp, 1, None)

RECURSIVE UpstreamScan(_, _, _, _)
\* The loop of _get_upstream_at_time from record i on.
UpstreamScan(records, timestamp, i, upstream) ==
    IF i > Len(records) THEN upstream
    ELSE IF records[i].dt <= timestamp
         THEN UpstreamScan(records, timestamp, i + 1, records[i].key)
    ELSE upstream

\* _get_upstream_at_time(timestamp)
GetUpstreamAtTime(log, timestamp) ==
    LET records == LoadHistory(log)
    IN  IF records = <<>> THEN "official"
        ELSE UpstreamScan(records, timestamp, 1, "official")

-----------------------------------------------------------------------------
(* Process-wide read caches (data_loader.py)                               *)
(*                                                                         *)
(* time.time() is a number of seconds.  The remote pricing table is a      *)
(* function from the models it prices to their rows; the empty table {}    *)
(* is the empty function.  The remote source is [up, table]: whether the   *)
(* request succeeds, and the table it serves.                              *)

UPSTREAM_CACHE_TTL == 30

Histories == {"pricing", "rate", "upstream"}

Caches == Histories \cup {"remote"}

\* The file a history loader reads.
LogOf(h) ==
    IF h = "pricing" THEN pricing_log ELSE IF h = "rate" THEN rate_log ELSE upstream_log

\* The test of a history loader on its cache (data_loader.py:57-60, 99, 163).
CacheFresh(cache, cache_time, t) ==
    cache # <<>> /\ (t - cache_time) < UPSTREAM_CACHE_TTL

\* _load_pricing_history / _load_rate_history / _load_upstream_log run without
\* interruption at time.time() = t: the list returned, the cache globals after
\* the call, and whether the source was read.
LoadHistoryCached(log, cache, cache_time, t) ==
    IF CacheFresh(cache, cache_time, t)
    THEN [records |-> cache, cache |-> cache, cache_time |-> cache_time, touched |-> FALSE]
    ELSE IF ~log.exists
    THEN [records |-> <<>>, cache |-> cache, cache_time |-> cache_time, touched |-> FALSE]
    ELSE [records |-> SortByDt(log.lines), cache |-> SortByDt(log.lines),
          cache_time |-> t, touched |-> TRUE]

\* _fetch_litellm_pricing(): the table returned, _pricing_cache after the call,
\* and whether the source was read.
FetchLitellmPricing(source, cache) ==
    IF DOMAIN cache # {}
    THEN [table |-> cache, cache |-> cache, touched |-> FALSE]
    ELSE IF source.up
    THEN [table |-> source.table, cache |-> source.table, touched |-> TRUE]
    ELSE [table |-> <<>>, cache |-> cache, touched |-> FALSE]

\* The module globals as the import leaves them (data_loader.py:15-21).
ColdCaches ==
    /\ history_cache = [h \in Histories |-> <<>>]
    /\ history_cache_time = [h \in Histories |-> 0]
    /\ pricing_cache = <<>>
    /\ last_load = [c \in Caches |-> None]
    /\ read = None

\* time.time() when the process starts: long after the epoch.
StartTime == 4 * UPSTREAM_CACHE_TTL

\* The remote source when the request fails.
Unreachable == [up |-> FALSE, table |-> <<>>]

\* The threads that call into the loaders: the background refresh and a
\* request handler.
Threads == {"refresh", "handler"}

\* The locals of a thread that is in no call.
NoLocals == [history |-> "", now |-> 0, records |-> <<>>, position |-> 0, returned |-> None]

\* No thread is in a call.
NoCalls == pc = [p \in Threads |-> "idle"] /\ call = [p \in Threads |-> NoLocals]

\* The caches have not been used.
NoCacheUse == time = StartTime /\ remote_source = Unreachable /\ ColdCaches /\ NoCalls

\* Mutant of PublishedOrder: the list is published in file order.
PublishedInFileOrder(records) == records

\* records.sort(key=lambda x: x[0]) before the list is stored and returned
\* (data_loader.py:89, 123, 186).
PublishedOrder(records) == SortByDt(records)

\* The positions of a thread after a loader has returned: at `return` of the
\* cached list, of the empty list for a missing file, of the list just loaded.
ReturnPoints == {"returned_cache", "returned_missing", "returned_records"}

-----------------------------------------------------------------------------
(* Cost calculator and entry parser (data_loader.py, config.py)            *)
(*                                                                         *)
(* Floats are fixed-point numbers: a price is in hundredths of a USD per   *)
(* million tokens, a multiplier in hundredths, and a cost in units of      *)
(* 1e-10 USD, so that tokens * price / 1_000_000 and cost * rate are exact.*)

RateScale == 100

\* CONFIG.upstreams.get(upstream, {}).get("rate", 1.0)
ConfigRate(upstream) ==
    CASE upstream = "official" -> 100
      [] upstream = "claude" -> 600
      [] upstream = "azure" -> 400
      [] upstream = "2api" -> 60
      [] upstream = "droid" -> 25
      [] OTHER -> 100

ConfigModels ==
    {"claude-opus-4-5-20251101", "claude-sonnet-4-5-20250929", "claude-sonnet-4-20250514",
     "claude-3-5-sonnet-20241022", "claude-haiku-4-5-20251001"}

\* CONFIG.model_pricing[model]
ConfigPricing(model) ==
    CASE model = "claude-opus-4-5-20251101" ->
             [input |-> 500, output |-> 2500, cache_creation |-> 625, cache_read |-> 50]
      [] model = "claude-haiku-4-5-20251001" ->
             [input |-> 100, output |-> 500, cache_creation |-> 125, cache_read |-> 10]
      [] OTHER ->
             [input |-> 300, output |-> 1500, cache_creation |-> 375, cache_read |-> 30]

\* The hard-coded default row of _get_model_pricing.
DefaultPricing ==
    [input |-> 300, output |-> 1500, cache_creation |-> 375, cache_read |-> 30]

\* _get_model_pricing(model); remote is what _fetch_litellm_pricing returned, a
\* function from the models it prices to their rows (empty when the fetch failed).
GetModelPricing(model, remote) ==
    IF model \in DOMAIN remote THEN remote[model]
    ELSE IF model \in ConfigModels THEN ConfigPricing(model)
    ELSE DefaultPricing

\* A JSON value of a field: absent, null, a string, or an integer n.
JAbsent == [kind |-> "absent", n |-> 0]
JNull == [kind |-> "null", n |-> 0]
JString == [kind |-> "string", n |-> 0]
JInt(n) == [kind |-> "int", n |-> n]

\* dict.get(name, 0)
GetOrZero(v) == IF v.kind = "absent" THEN JInt(0) ELSE v

\* The ways a call ends: a UsageEntry, None, or an exception left to the caller.
Returned(entry) == [kind |-> "entry", entry |-> entry, exc |-> ""]
Skip == [kind |-> "skip", entry |-> <<>>, exc |-> ""]
Raised(exc) == [kind |-> "raise", entry |-> <<>>, exc |-> exc]

\* cost_usd * rate
TimesRate(cost_usd, rate) == (cost_usd * rate) \div RateScale

\* _calculate_cost(model, ..., timestamp), the token counts being integers.
CalculateCost(model, input_tokens, output_tokens, cache_creation_tokens, cache_read_tokens, timestamp, log, remote) ==
    LET history == GetPricingAtTime(log, model, timestamp)
        pricing == IF history = None THEN GetModelPricing(model, remote) ELSE Val(history)
    IN  (input_tokens * pricing.input + output_tokens * pricing.output
         + cache_creation_tokens * pricing.cache_creation
         + cache_read_tokens * pricing.cache_read) * RateScale

\* The host's offset from UTC, here UTC+8.
LocalOffset == 8 * SecondsPerHour

\* datetime.fromisoformat(s.replace("Z", "+00:00")).astimezone().replace(tzinfo=None)
ToLocalTime(utc_time) == utc_time + LocalOffset

\* Mutant of MultiplierAt: the channel-rate history is not consulted.
MultiplierFromConfig(log, upstream, timestamp) == ConfigRate(upstream)

\* The multiplier of parse_jsonl_line (data_loader.py:299-301).
MultiplierAt(log, upstream, timestamp) ==
    LET rate == GetRateAtTime(log, upstream, timestamp)
    IN  IF rate = None THEN ConfigRate(upstream) ELSE Val(rate)

\* parse_jsonl_line from the timestamp conversion on (data_loader.py:284-315).
BuildEntry(l, input_tokens, output_tokens, cache_creation_tokens, cache_read_tokens, pricing, rates, switches, remote) ==
    LET timestamp == ToLocalTime(l.timestamp.time)
        tokens == <<input_tokens, output_tokens, cache_creation_tokens, cache_read_tokens>>
        upstream == GetUpstreamAtTime(switches, timestamp)
        rate == MultiplierAt(rates, upstream, timestamp)
    IN  IF l.costUSD.kind \in {"absent", "null"}
        THEN IF \E i \in 1..4 : tokens[i].kind # "int"
             THEN Raised("TypeError")
             ELSE LET cost_usd == CalculateCost(l.model, input_tokens.n, output_tokens.n,
                                                cache_creation_tokens.n, cache_read_tokens.n,
                                                timestamp, pricing, remote)
                  IN  Returned(UsageEntry(timestamp, TimesRate(cost_usd, rate), cost_usd,
                                          l.model, input_tokens, output_tokens,
                                          cache_creation_tokens, cache_read_tokens, upstream))
        ELSE IF l.costUSD.kind # "int"
        THEN Raised("TypeError")
        ELSE Returned(UsageEntry(timestamp, TimesRate(l.costUSD.n, rate), l.costUSD.n,
                                 l.model, input_tokens, output_tokens,
                                 cache_creation_tokens, cache_read_tokens, upstream))

\* parse_jsonl_line(line), the three logs and the remote table being what the
\* loaders and the fetch return.  The token counts of the entry are the JSON
\* values of the fields, as the code stores them.
ParseJsonlLine(l, pricing, rates, switches, remote) ==
    IF l.json = "invalid" THEN Skip
    ELSE IF l.json = "nonobject" THEN Raised("AttributeError")
    ELSE IF l.timestamp.kind = "falsy" THEN Skip
    ELSE IF l.message \in {"null", "nonobject"} THEN Raised("AttributeError")
    ELSE IF l.message = "object" /\ l.usage \in {"null", "nonobject"}
         THEN Raised("AttributeError")
    ELSE LET input_tokens == GetOrZero(l.input_tokens)
             output_tokens == GetOrZero(l.output_tokens)
             cache_creation_tokens == GetOrZero(l.cache_creation_input_tokens)
             cache_read_tokens == GetOrZero(l.cache_read_input_tokens)
         IN  IF input_tokens = JInt(0) /\ output_tokens = JInt(0) THEN Skip
             ELSE IF l.timestamp.kind = "nonstring" THEN Raised("AttributeError")
             ELSE IF l.timestamp.kind = "unparseable" THEN Skip
             ELSE BuildEntry(l, input_tokens, output_tokens, cache_creation_tokens,
                             cache_read_tokens, pricing, rates, switches, remote)

-----------------------------------------------------------------------------
(* File loader (data_loader.py)                                            *)
(*                                                                         *)
(* A file is [jsonl, status, lines]: whether its name ends in ".jsonl";    *)
(* what reading it does ("ok", or the failure "permission", "missing" or   *)
(* "encoding"); and the non-blank lines read from it.  open() fails on a   *)
(* file that may not be read or is gone; undecodable bytes fail the        *)
(* iteration after the lines decoded before them.                          *)

\* The ways a load ends: a list of entries, or an exception left to the caller.
Loaded(entry_list) == [kind |-> "returned", entries |-> entry_list, exc |-> ""]
Aborted(exc) == [kind |-> "raise", entries |-> <<>>, exc |-> exc]

RECURSIVE ReadLines(_, _, _, _, _)
\* The loop of _load_single_file over the lines of an open file.
ReadLines(lines, pricing, rates, switches, remote) ==
    IF lines = <<>> THEN Loaded(<<>>)
    ELSE LET entry == ParseJsonlLine(Head(lines), pricing, rates, switches, remote)
         IN  IF entry.kind = "raise" THEN Aborted(entry.exc)
             ELSE LET rest == ReadLines(Tail(lines), pricing, rates, switches, remote)
                  IN  IF rest.kind = "raise" THEN rest
                      ELSE IF entry.kind = "entry"
                           THEN Loaded(<<entry.entry>> \o rest.entries)
                           ELSE rest

\* _load_single_file(file_path): only OSError is caught.  PermissionError and
\* FileNotFoundError are OSErrors; UnicodeDecodeError is a ValueError.
LoadSingleFile(file, pricing, rates, switches, remote) ==
    IF file.status \in {"permission", "missing"} THEN Loaded(<<>>)
    ELSE LET lines_read == ReadLines(file.lines, pricing, rates, switches, remote)
         IN  IF lines_read.kind = "raise" THEN lines_read
             ELSE IF file.status = "encoding" THEN Aborted("UnicodeDecodeError")
             ELSE lines_read

RECURSIVE WalkFiles(_, _, _, _, _)
\* The loops of load_jsonl_files over the files, before the sort.
WalkFiles(file_list, pricing, rates, switches, remote) ==
    IF file_list = <<>> THEN Loaded(<<>>)
    ELSE IF ~Head(file_list).jsonl
         THEN WalkFiles(Tail(file_list), pricing, rates, switches, remote)
    ELSE LET file_entries == LoadSingleFile(Head(file_list), pricing, rates, switches, remote)
         IN  IF file_entries.kind = "raise" THEN file_entries
             ELSE LET rest == WalkFiles(Tail(file_list), pricing, rates, switches, remote)
                  IN  IF rest.kind = "raise" THEN rest
                      ELSE Loaded(file_entries.entries \o rest.entries)

\* load_jsonl_files(dirs)
LoadJsonlFiles(file_list, pricing, rates, switches, remote) ==
    LET walked == WalkFiles(file_list, pricing, rates, switches, remote)
    IN  IF walked.kind = "raise" THEN walked
        ELSE Loaded(SortByTimestamp(walked.entries))

-----------------------------------------------------------------------------
(* Minute aggregator (calculator.py)                                       *)
(*                                                                         *)
(* A dict is the list of its items in insertion order, which is the order  *)
(* Python iterates it in.                                                  *)

AGGREGATION_MINUTES == 1

ModelData(model, cost_usd, input_tokens, output_tokens, cache_creation_tokens, cache_read_tokens, count) ==
    [model |-> model, cost_usd |-> cost_usd, input_tokens |-> input_tokens,
     output_tokens |-> output_tokens,
     cache_creation_tokens |-> cache_creation_tokens,
     cache_read_tokens |-> cache_read_tokens, count |-> count]

\* entry.model or "unknown"
ModelName(entry) == IF entry.model = "" THEN "unknown" ELSE entry.model

\* Mutant of MergeModel: the cost of a model is overwritten, not accumulated.
MergeModelOverwritesCost(m, entry) ==
    ModelData(m.model, entry.cost_usd,
              m.input_tokens + entry.input_tokens,
              m.output_tokens + entry.output_tokens,
              m.cache_creation_tokens + entry.cache_creation_tokens,
              m.cache_read_tokens + entry.cache_read_tokens,
              m.count + 1)

\* The update of model_map[model] by one more entry (calculator.py:65-70).
MergeModel(m, entry) ==
    ModelData(m.model, m.cost_usd + entry.cost_usd,
              m.input_tokens + entry.input_tokens,
              m.output_tokens + entry.output_tokens,
              m.cache_creation_tokens + entry.cache_creation_tokens,
              m.cache_read_tokens + entry.cache_read_tokens,
              m.count + 1)

\* One iteration of the loop of _aggregate_models.
AddToModelMap(model_map, entry) ==
    LET model == ModelName(entry)
    IN  IF \E i \in 1..Len(model_map) : model_map[i].model = model
        THEN [i \in 1..Len(model_map) |->
                 IF model_map[i].model = model
                 THEN MergeModel(model_map[i], entry)
                 ELSE model_map[i]]
        ELSE Append(model_map,
                    ModelData(model, entry.cost_usd, entry.input_tokens,
                              entry.output_tokens, entry.cache_creation_tokens,
                              entry.cache_read_tokens, 1))

RECURSIVE ModelMapOf(_, _)
\* model_map after the first k entries.
ModelMapOf(entry_list, k) ==
    IF k = 0 THEN <<>>
    ELSE AddToModelMap(ModelMapOf(entry_list, k - 1), entry_list[k])

RECURSIVE InsertByCostDescending(_, _)
\* One step of a stable descending sort: x goes after every element whose cost
\* is >= its own.
InsertByCostDescending(x, s) ==
    IF s = <<>> THEN <<x>>
    ELSE IF Head(s).cost_usd >= x.cost_usd
         THEN <<Head(s)>> \o InsertByCostDescending(x, Tail(s))
         ELSE <<x>> \o s

RECURSIVE SortByCostDescending(_)
\* sorted(values, key=lambda x: x.cost_usd, reverse=True): stable, so models of
\* equal cost keep their insertion order.
SortByCostDescending(s) ==
    IF s = <<>> THEN <<>>
    ELSE InsertByCostDescending(s[Len(s)],
                                SortByCostDescending(SubSeq(s, 1, Len(s) - 1)))

\* _aggregate_models(entries)
AggregateModels(entry_list) ==
    SortByCostDescending(ModelMapOf(entry_list, Len(entry_list)))

\* entry.timestamp.replace(minute=minute, second=0, microsecond=0), minute being
\* the minute of the hour floored to AGGREGATION_MINUTES.
FloorToBucket(dt) ==
    LET minute_of_hour == (dt % SecondsPerHour) \div SecondsPerMinute
        minute == (minute_of_hour \div AGGREGATION_MINUTES) * AGGREGATION_MINUTES
    IN  (dt \div SecondsPerHour) * SecondsPerHour + minute * SecondsPerMinute

\* ts.strftime("%H:%M"): the hour of the day and the minute of the hour.
MinuteLabel(ts) ==
    <<(ts % SecondsPerDay) \div SecondsPerHour, (ts % SecondsPerHour) \div SecondsPerMinute>>

\* Mutant of MinuteKey: the key leaves the date out, as the "%H:%M" label does.
MinuteKeyWithoutDate(ts) == MinuteLabel(ts)

\* ts.strftime("%Y-%m-%d %H:%M"): the day, the hour of the day and the minute.
MinuteKey(ts) ==
    <<ts \div SecondsPerDay, (ts % SecondsPerDay) \div SecondsPerHour,
      (ts % SecondsPerHour) \div SecondsPerMinute>>

\* One iteration of the first loop of aggregate_by_minute.
AddToMinuteMap(minute_map, entry) ==
    LET ts == FloorToBucket(entry.timestamp)
        minute_key == MinuteKey(ts)
    IN  IF \E i \in 1..Len(minute_map) : minute_map[i].key = minute_key
        THEN [i \in 1..Len(minute_map) |->
                 IF minute_map[i].key = minute_key
                 THEN [minute_map[i] EXCEPT !.entries = Append(@, entry)]
                 ELSE minute_map[i]]
        ELSE Append(minute_map,
                    [key |-> minute_key, minute |-> MinuteLabel(ts),
                     timestamp |-> ts, entries |-> <<entry>>])

RECURSIVE MinuteMapOf(_, _)
\* minute_map after the first k entries.
MinuteMapOf(entry_list, k) ==
    IF k = 0 THEN <<>>
    ELSE AddToMinuteMap(MinuteMapOf(entry_list, k - 1), entry_list[k])

RECURSIVE SumOf(_, _)
\* sum(e.<field> for e in s)
SumOf(s, field) ==
    IF s = <<>> THEN 0 ELSE Head(s)[field] + SumOf(Tail(s), field)

\* The MinuteData built from one item of minute_map (calculator.py:111-123).
MinuteData(item) ==
    [minute |-> item.minute,
     timestamp |-> item.timestamp,
     cost_usd |-> SumOf(item.entries, "cost_usd"),
     input_tokens |-> SumOf(item.entries, "input_tokens"),
     output_tokens |-> SumOf(item.entries, "output_tokens"),
     cache_creation_tokens |-> SumOf(item.entries, "cache_creation_tokens"),
     cache_read_tokens |-> SumOf(item.entries, "cache_read_tokens"),
     count |-> Len(item.entries),
     models |-> AggregateModels(item.entries)]

\* aggregate_by_minute(entries)
AggregateByMinute(entry_list) ==
    IF entry_list = <<>> THEN <<>>
    ELSE LET minute_map == MinuteMapOf(entry_list, Len(entry_list))
             buckets == [i \in 1..Len(minute_map) |-> MinuteData(minute_map[i])]
         IN  SortByTimestamp(buckets)

-----------------------------------------------------------------------------
(* Session-block detector and view windowing (calculator.py)               *)

SESSION_DURATION_HOURS == 5

\* timedelta(hours=SESSION_DURATION_HOURS)
session_duration == SESSION_DURATION_HOURS * SecondsPerHour

\* Mutant of FloorToHour: minute=0 left out of the replace().
FloorToHourKeepsMinute(dt) == (dt \div SecondsPerMinute) * SecondsPerMinute

\* dt.replace(minute=0, second=0, microsecond=0)
FloorToHour(dt) == (dt \div SecondsPerHour) * SecondsPerHour

\* now.replace(hour=0, minute=0, second=0, microsecond=0)
FloorToDay(dt) == (dt \div SecondsPerDay) * SecondsPerDay

\* Mutant of StartsNewBlock: the running block is never closed.
StartsNewBlockNever(time_since_block_start, time_since_last_entry) == FALSE

\* The test that starts a new block at an entry (calculator.py:237).
StartsNewBlock(time_since_block_start, time_since_last_entry) ==
    \/ time_since_block_start > session_duration
    \/ time_since_last_entry > session_duration

RECURSIVE BlockScan(_, _)
\* The loop of _find_current_block_start after its first k iterations over
\* sorted_entries: the values of current_block_start and last_entry_time, and
\* block_first, the position in sorted_entries of the entry that set
\* current_block_start (0 before the first iteration).
BlockScan(sorted_entries, k) ==
    IF k = 0
    THEN [current_block_start |-> None, last_entry_time |-> None, block_first |-> 0]
    ELSE LET prev == BlockScan(sorted_entries, k - 1)
             entry_time == sorted_entries[k].timestamp
         IN  IF prev.current_block_start = None
             THEN [current_block_start |-> Some(FloorToHour(entry_time)),
                   last_entry_time |-> Some(entry_time),
                   block_first |-> k]
             ELSE LET time_since_block_start ==
                          entry_time - Val(prev.current_block_start)
                      time_since_last_entry ==
                          IF prev.last_entry_time # None
                          THEN entry_time - Val(prev.last_entry_time)
                          ELSE 0
                  IN  IF StartsNewBlock(time_since_block_start, time_since_last_entry)
                      THEN [current_block_start |-> Some(FloorToHour(entry_time)),
                            last_entry_time |-> Some(entry_time),
                            block_first |-> k]
                      ELSE [prev EXCEPT !.last_entry_time = Some(entry_time)]

\* Mutant of BlockExpired: the block end itself counts as expired.
BlockExpiredAtEnd(clock, block_start) == clock >= block_start + session_duration

\* The expiry test after the scan (calculator.py:245-247).
BlockExpired(clock, block_start) == clock > block_start + session_duration

\* _find_current_block_start(entries), with datetime.now() = clock.
FindCurrentBlockStart(entry_list, clock) ==
    IF entry_list = <<>> THEN None
    ELSE LET sorted_entries == SortByTimestamp(entry_list)
             scan == BlockScan(sorted_entries, Len(sorted_entries))
         IN  IF scan.current_block_start = None THEN None
             ELSE IF BlockExpired(clock, Val(scan.current_block_start)) THEN None
             ELSE scan.current_block_start

\* [e for e in entries if e.timestamp >= start]
EntriesFrom(entry_list, start) ==
    SelectSeq(entry_list, LAMBDA e : e.timestamp >= start)

\* filter_entries_by_view(entries, view), with datetime.now() = clock.
FilterEntriesByView(entry_list, v, clock) ==
    IF entry_list = <<>> THEN <<>>
    ELSE IF v = "today" THEN EntriesFrom(entry_list, FloorToDay(clock))
    ELSE IF v = "24h" THEN EntriesFrom(entry_list, clock - HoursPerDay * SecondsPerHour)
    ELSE LET block_start == FindCurrentBlockStart(entry_list, clock)
         IN  IF block_start = None THEN <<>>
             ELSE EntriesFrom(entry_list, Val(block_start))

-----------------------------------------------------------------------------
(* Specification of the view windowing: the entry list is any list of at   *)
(* most MaxEntries entries on the half-hour grid, and the request handler  *)
(* filters it for a view at some clock reading.                            *)

Views == {"today", "24h", "current"}

\* 22:00 of day 0, so that local midnight falls inside the grid.
GridStart == (HoursPerDay - 2) * SecondsPerHour

EntryTimes == {GridStart + k * HalfHour : k \in 0..MaxHalfHours}

\* Clock readings around the block ends the grid can produce: every third hour.
ExpiryTimes ==
    {GridStart + h * SecondsPerHour : h \in {x \in 0..MaxNowHours : x % 3 = 2}}

\* Clock readings on both sides of a midnight: 23:00 and 02:00.
DayTimes ==
    {d * SecondsPerDay + (HoursPerDay - 1) * SecondsPerHour : d \in 0..1}
    \cup {d * SecondsPerDay + 2 * SecondsPerHour : d \in 1..2}

\* The clock readings a request for view v is tried at.
NowTimes(v) == IF v = "current" THEN ExpiryTimes ELSE DayTimes

ViewEntry(t) == UsageEntry(t, 1, 1, "m", 1, 1, 0, 0, "official")

RECURSIVE AscendingFrom(_, _)
\* The ascending lists of n grid times, none before lo.
AscendingFrom(n, lo) ==
    IF n = 0 THEN {<<>>}
    ELSE UNION {{<<t>> \o s : s \in AscendingFrom(n - 1, t)} :
                t \in {x \in EntryTimes : x >= lo}}

\* The lists of at most MaxEntries grid times in ascending order.
AscendingTimes == UNION {AscendingFrom(n, 0) : n \in 0..MaxEntries}

Reversed(s) == [i \in 1..Len(s) |-> s[Len(s) + 1 - i]]

Rotated(s) == IF s = <<>> THEN s ELSE Tail(s) \o <<Head(s)>>

\* The input orders tried for one list: ascending, descending, and rotated by one.
InputOrders(s) == {s, Reversed(s), Rotated(s)}

InitView ==
    /\ \E s \in AscendingTimes : \E o \in InputOrders(s) :
          entries = [i \in 1..Len(o) |-> ViewEntry(o[i])]
    /\ NoRequest
    /\ NoLogs
    /\ lookup = None
    /\ NoParse
    /\ NoLoad
    /\ NoCacheUse

\* One request: filter_entries_by_view(entries, v) at clock reading clock.
FilterCall(v, clock) ==
    /\ view = None
    /\ view' = Some(v)
    /\ now' = Some(clock)
    /\ result' = Some(FilterEntriesByView(entries, v, clock))
    /\ UNCHANGED <<entries, data, logVars, lookup, parseVars, loadVars, cacheVars, threadVars>>

NextView == \E v \in Views : \E clock \in NowTimes(v) : FilterCall(v, clock)

SpecView == InitView /\ [][NextView]_vars

-----------------------------------------------------------------------------
(* Properties of the view windowing                                        *)

Called(v) == view = Some(v)

EntryTimestamps == {entries[i].timestamp : i \in 1..Len(entries)}

\* t is the timestamp of an entry whose predecessor in time lies more than d
\* (at least d, when strict is FALSE) before it.
FollowsGap(t, d, strict) ==
    /\ t \in EntryTimestamps
    /\ \E u \in EntryTimestamps :
          /\ u < t
          /\ IF strict THEN t - u > d ELSE t - u >= d
          /\ \A w \in EntryTimestamps : ~(u < w /\ w < t)

GapTimes == {t \in EntryTimestamps : FollowsGap(t, session_duration, TRUE)}

LastGapTime == CHOOSE t \in GapTimes : \A u \in GapTimes : u <= t

\* h is the start of the clock hour that holds t.
IsHourOf(h, t) == h % SecondsPerHour = 0 /\ h <= t /\ t < h + SecondsPerHour

\* C1: when two timestamp-consecutive entries are more than 5 hours apart, the
\* block start found is at or after the hour of the first entry following the
\* last such gap, and the "current" view returns no entry from before that gap.
C1_GapRule ==
    (Called("current") /\ GapTimes # {}) =>
        LET block_start == FindCurrentBlockStart(entries, Val(now))
            returned == Val(result)
        IN  /\ block_start # None =>
                  Val(block_start) >= LastGapTime - (LastGapTime % SecondsPerHour)
            /\ \A i \in 1..Len(returned) : returned[i].timestamp >= LastGapTime

\* Witness of C1: two gaps of more than 5 hours, an active block, and an entry
\* from before the last gap left out of the view.
C1_Witness ==
    /\ Called("current")
    /\ Cardinality(GapTimes) >= 2
    /\ Val(result) # <<>>
    /\ Len(Val(result)) < Len(entries)

\* The last block start produced by the scan over the sorted entries.
ScannedBlockStart ==
    LET sorted_entries == SortByTimestamp(entries)
    IN  Val(BlockScan(sorted_entries, Len(sorted_entries)).current_block_start)

\* The entries at or after start, in input order.
AtOrAfter(start) ==
    LET keep == {i \in 1..Len(entries) : entries[i].timestamp >= start}
    IN  [j \in 1..Cardinality(keep) |->
            entries[CHOOSE i \in keep : Cardinality({k \in keep : k <= i}) = j]]

\* C2: for a non-empty entry list the "current" view is empty when
\* now > block_start + 5h and otherwise (boundary included) holds exactly the
\* entries at or after block_start; "today" and "24h" do not depend on expiry.
C2_Expiry ==
    (view # None /\ entries # <<>>) =>
        /\ Called("current") =>
              IF Val(now) > ScannedBlockStart + SESSION_DURATION_HOURS * SecondsPerHour
              THEN Val(result) = <<>>
              ELSE Val(result) = AtOrAfter(ScannedBlockStart)
        /\ Called("today") =>
              Val(result) = AtOrAfter(Val(now) - (Val(now) % SecondsPerDay))
        /\ Called("24h") =>
              Val(result) = AtOrAfter(Val(now) - SecondsPerDay)

\* Witness of C2: a request made exactly at the block end, which still sees the block.
C2_Witness ==
    /\ Called("current")
    /\ entries # <<>>
    /\ Val(now) = ScannedBlockStart + SESSION_DURATION_HOURS * SecondsPerHour
    /\ Val(result) # <<>>

\* The entries in the order the scan visits them.
ScanOrder == SortByTimestamp(entries)

\* C3 as stated: an entry 5 hours or more (exactly 5 hours included) after its
\* predecessor starts a new block at its own hour.
C3_GapOfFiveHoursOrMore ==
    Called("current") =>
        LET sorted_entries == ScanOrder
        IN  \A k \in 2..Len(sorted_entries) :
                LET t == sorted_entries[k].timestamp
                IN  FollowsGap(t, session_duration, FALSE) =>
                        IsHourOf(Val(BlockScan(sorted_entries, k).current_block_start), t)

\* C3 amended: an entry more than 5 hours after its predecessor starts a new
\* block at its own hour.
C3_GapOverFiveHours ==
    Called("current") =>
        LET sorted_entries == ScanOrder
        IN  \A k \in 2..Len(sorted_entries) :
                LET t == sorted_entries[k].timestamp
                IN  FollowsGap(t, session_duration, TRUE) =>
                        IsHourOf(Val(BlockScan(sorted_entries, k).current_block_start), t)

\* Witness of C3: an off-hour entry more than 5 hours after its predecessor has
\* been scanned and the block has moved to its hour.
C3_Witness ==
    /\ Called("current")
    /\ LET sorted_entries == ScanOrder
       IN  \E k \in 2..Len(sorted_entries) :
               LET t == sorted_entries[k].timestamp
               IN  /\ FollowsGap(t, session_duration, TRUE)
                   /\ t % SecondsPerHour # 0
                   /\ IsHourOf(Val(BlockScan(sorted_entries, k).current_block_start), t)

\* The timestamp of the entry that started the last block of the scan.
LastBlockFirstTime ==
    LET sorted_entries == ScanOrder
    IN  sorted_entries[BlockScan(sorted_entries, Len(sorted_entries)).block_first].timestamp

\* C13: every entry the "current" view returns was assigned by the scan to the
\* last block: it is the entry that started the block or a later one, and no
\* entry of an earlier block is returned.
C13_OnlyCurrentBlock ==
    (Called("current") /\ entries # <<>>) =>
        \A i \in 1..Len(Val(result)) : Val(result)[i].timestamp >= LastBlockFirstTime

-----------------------------------------------------------------------------
(* Specification of the history lookups: one of the two history logs holds *)
(* at most MaxRecords lines, in any file order, and one lookup is made.    *)

Models == {"claude-opus-4-5-20251101", "claude-haiku-4-5-20251001"}

Upstreams == {"official", "claude"}

LogTimes == 1..MaxLogTime

QueryTimes == 0..(MaxLogTime + 1)

\* The price row written on line i of the price log: i USD per million tokens
\* of every kind, so that every line carries a different row.
PriceRow(i) == [input |-> i, output |-> i, cache_creation |-> i, cache_read |-> i]

\* The log whose line i has the time and key f[i] and carries Value(i).
HistoryLog(f, Value(_)) ==
    LogFile(TRUE, [i \in 1..Len(f) |-> [dt |-> f[i][1], key |-> f[i][2], value |-> Value(i)]])

InitRate ==
    /\ \E n \in 0..MaxRecords :
          \/ \E f \in [1..n -> LogTimes \X Models] :
                pricing_log = HistoryLog(f, PriceRow) /\ rate_log = AbsentLog
          \/ \E f \in [1..n -> LogTimes \X Upstreams] :
                pricing_log = AbsentLog /\ rate_log = HistoryLog(f, LAMBDA i : i)
    /\ upstream_log = AbsentLog
    /\ lookup = None
    /\ entries = <<>>
    /\ NoRequest
    /\ NoParse
    /\ NoLoad
    /\ NoCacheUse

\* One call _get_pricing_at_time(model, timestamp).
GetPricingAtTimeCall(model, timestamp) ==
    /\ lookup = None
    /\ lookup' = Some([history |-> "pricing", key |-> model, timestamp |-> timestamp,
                       value |-> GetPricingAtTime(pricing_log, model, timestamp)])
    /\ UNCHANGED <<viewVars, logVars, parseVars, loadVars, cacheVars, threadVars>>

\* One call _get_rate_at_time(upstream, timestamp).
GetRateAtTimeCall(upstream, timestamp) ==
    /\ lookup = None
    /\ lookup' = Some([history |-> "rate", key |-> upstream, timestamp |-> timestamp,
                       value |-> GetRateAtTime(rate_log, upstream, timestamp)])
    /\ UNCHANGED <<viewVars, logVars, parseVars, loadVars, cacheVars, threadVars>>

NextRate ==
    \/ \E model \in Models, timestamp \in QueryTimes :
          GetPricingAtTimeCall(model, timestamp)
    \/ \E upstream \in Upstreams, timestamp \in QueryTimes :
          GetRateAtTimeCall(upstream, timestamp)

SpecRate == InitRate /\ [][NextRate]_vars

-----------------------------------------------------------------------------
(* Properties of the history lookups                                       *)

\* The log the last lookup read.
LookupLog == IF Val(lookup).history = "pricing" THEN pricing_log ELSE rate_log

\* The lines of log that are of key and in effect at time t.
InEffect(log, key, t) ==
    {i \in 1..Len(log.lines) : log.lines[i].key = key /\ log.lines[i].dt <= t}

\* The line in effect that is the latest: greatest effective-from time, and
\* among equal times the one written last.
LatestInEffect(log, key, t) ==
    CHOOSE i \in InEffect(log, key, t) :
        \A j \in InEffect(log, key, t) :
            \/ log.lines[j].dt < log.lines[i].dt
            \/ log.lines[j].dt = log.lines[i].dt /\ j <= i

\* What a lookup of key at t in log is to return.
ValueInEffect(log, key, t) ==
    IF InEffect(log, key, t) = {} THEN None
    ELSE Some(log.lines[LatestInEffect(log, key, t)].value)

\* log without the lines of other keys.
OnlyKey(log, key) == LogFile(log.exists, SelectSeq(log.lines, LAMBDA r : r.key = key))

\* C4: a lookup returns the value of the latest record of its key with
\* effective-from <= t (the t1 value for t1 <= t < t2, the t2 value from t2 on),
\* None when there is none, and the records of other keys never change it.
C4_MonotonicCutover ==
    lookup # None =>
        LET q == Val(lookup)
        IN  /\ q.value = ValueInEffect(LookupLog, q.key, q.timestamp)
            /\ q.history = "pricing" =>
                  q.value = GetPricingAtTime(OnlyKey(pricing_log, q.key), q.key, q.timestamp)
            /\ q.history = "rate" =>
                  q.value = GetRateAtTime(OnlyKey(rate_log, q.key), q.key, q.timestamp)

\* Witness of C4: the key has records at t1 < t2, written in the file in the
\* other order with a record of another key between them, and a lookup at
\* t1 <= t < t2 returned the t1 value.
C4_Witness ==
    /\ lookup # None
    /\ LET q == Val(lookup)
           lines == LookupLog.lines
       IN  \E i, j, k \in 1..Len(lines) :
              /\ j < k /\ k < i
              /\ lines[i].key = q.key /\ lines[j].key = q.key /\ lines[k].key # q.key
              /\ lines[i].dt < lines[j].dt
              /\ lines[i].dt <= q.timestamp /\ q.timestamp < lines[j].dt
              /\ q.value = Some(lines[i].value)

-----------------------------------------------------------------------------
(* Specification of the aggregation: the entry list is sorted by timestamp *)
(* as load_jsonl_files returns it (entries of one timestamp in any order), *)
(* and the request handler aggregates it.                                  *)

\* Two instants of one minute, the start of the next minute, and the same
\* minute of the hour one hour and one day later.
AggTimes == {0, SecondsPerMinute - 1, SecondsPerMinute, SecondsPerHour, SecondsPerDay}

AggModels == {"", "claude-opus-4-5-20251101", "claude-haiku-4-5-20251001"}

\* Two costs: those of two entries are equal or differ.
AggCosts == {1, 2}

\* An entry of cost c: its four token counts are different multiples of c.
AggEntry(t, model, c) == UsageEntry(t, c, c, model, 2 * c, 3 * c, 5 * c, 7 * c, "official")

InitAgg ==
    /\ \E n \in 0..MaxAggEntries : \E f \in [1..n -> AggTimes \X AggModels \X AggCosts] :
          /\ \A i \in 1..(n - 1) : f[i][1] <= f[i + 1][1]
          /\ entries = [i \in 1..n |-> AggEntry(f[i][1], f[i][2], f[i][3])]
    /\ NoRequest
    /\ NoLogs
    /\ lookup = None
    /\ NoParse
    /\ NoLoad
    /\ NoCacheUse

\* One request: aggregate_by_minute(entries).
AggregateCall ==
    /\ data = None
    /\ data' = Some(AggregateByMinute(entries))
    /\ UNCHANGED <<entries, view, now, result, logVars, lookup, parseVars, loadVars, cacheVars, threadVars>>

NextAgg == AggregateCall

SpecAgg == InitAgg /\ [][NextAgg]_vars

-----------------------------------------------------------------------------
(* Properties of the aggregation                                           *)

Fields == {"cost_usd", "input_tokens", "output_tokens", "cache_creation_tokens",
           "cache_read_tokens"}

\* The positions of the entries whose timestamp lies in the minute starting at ts.
EntriesOfMinute(ts) ==
    {i \in 1..Len(entries) :
        ts <= entries[i].timestamp /\ entries[i].timestamp < ts + SecondsPerMinute}

RECURSIVE SumOver(_, _)
\* The sum of entries[i][field] over the positions i of set.
SumOver(set, field) ==
    IF set = {} THEN 0
    ELSE LET i == CHOOSE x \in set : TRUE
         IN  entries[i][field] + SumOver(set \ {i}, field)

Reorderings ==
    {[i \in 1..Len(entries) |-> entries[p[i]]] : p \in Permutations(1..Len(entries))}

\* C6: aggregate_by_minute yields the same bucket sequence, per-model breakdown
\* lists included, for every permutation of the entries.
C6_OrderIndependence ==
    data # None => \A e \in Reorderings : AggregateByMinute(e) = Val(data)

-----------------------------------------------------------------------------
(* Specification of the parser: one line, well-formed or malformed in one  *)
(* of the ways JSON allows, is parsed against small history logs.          *)

\* The field "timestamp": absent, null or empty (falsy); a number, list or
\* object (nonstring); a string that is no ISO-8601 time (unparseable); or the
\* ISO-8601 string of the UTC time `time`.
TimestampFields ==
    {[kind |-> k, time |-> 0] : k \in {"falsy", "nonstring", "unparseable"}}
    \cup {[kind |-> "valid", time |-> t] : t \in 0..MaxParseTime}

TokenFields == {JAbsent, JNull, JString} \cup {JInt(n) : n \in -1..MaxTokens}

CacheCreationFields == {JAbsent, JNull, JInt(1)}

CacheReadFields == {JAbsent, JInt(1)}

CostFields == {JAbsent, JString, JInt(2 * RateScale)}

ParseModels == {"", "claude-opus-4-5-20251101"}

\* A line that is a JSON object.
ObjectLine(timestamp, costUSD, message, model, usage, input_tokens, output_tokens, cache_creation, cache_read) ==
    [json |-> "object", timestamp |-> timestamp, costUSD |-> costUSD,
     message |-> message, model |-> model, usage |-> usage,
     input_tokens |-> input_tokens, output_tokens |-> output_tokens,
     cache_creation_input_tokens |-> cache_creation,
     cache_read_input_tokens |-> cache_read]

\* A line that is not JSON (json = "invalid"), or JSON but no object: a list, a
\* number, a string, null (json = "nonobject").
OtherLine(json) ==
    [ObjectLine([kind |-> "falsy", time |-> 0], JAbsent, "absent", "", "absent",
                JAbsent, JAbsent, JAbsent, JAbsent) EXCEPT !.json = json]

\* The time the history records of the parser specification take effect at.
ParseLogTime == LocalOffset + 1

ParseSwitchLogs ==
    {AbsentLog, LogFile(TRUE, <<>>),
     LogFile(TRUE, <<[dt |-> ParseLogTime, key |-> "claude"]>>)}

ParseRateLogs ==
    {AbsentLog}
    \cup {LogFile(TRUE, <<[dt |-> ParseLogTime, key |-> u, value |-> 150]>>) :
            u \in {"official", "claude"}}

ParsePricingLogs ==
    {AbsentLog,
     LogFile(TRUE, <<[dt |-> ParseLogTime, key |-> "claude-opus-4-5-20251101",
                      value |-> [input |-> 200, output |-> 200,
                                 cache_creation |-> 200, cache_read |-> 200]]>>)}

\* What _fetch_litellm_pricing returns: nothing (the fetch failed), or a table
\* that prices one model.
RemoteTables ==
    {<<>>,
     [m \in {"claude-opus-4-5-20251101"} |->
         [input |-> 400, output |-> 400, cache_creation |-> 400, cache_read |-> 400]]}

InitParse ==
    /\ \/ \E json \in {"invalid", "nonobject"} : line = Some(OtherLine(json))
       \/ \E timestamp \in TimestampFields, costUSD \in CostFields :
             \/ \E message \in {"absent", "null", "nonobject"} :
                   line = Some(ObjectLine(timestamp, costUSD, message, "", "absent",
                                          JAbsent, JAbsent, JAbsent, JAbsent))
             \/ \E model \in ParseModels :
                   \/ \E usage \in {"absent", "null", "nonobject"} :
                         line = Some(ObjectLine(timestamp, costUSD, "object", model, usage,
                                                JAbsent, JAbsent, JAbsent, JAbsent))
                   \/ \E input_tokens \in TokenFields, output_tokens \in TokenFields,
                         cache_creation \in CacheCreationFields,
                         cache_read \in CacheReadFields :
                         line = Some(ObjectLine(timestamp, costUSD, "object", model,
                                                "object", input_tokens, output_tokens,
                                                cache_creation, cache_read))
    /\ parsed = None
    /\ pricing_log \in ParsePricingLogs
    /\ rate_log \in ParseRateLogs
    /\ upstream_log \in ParseSwitchLogs
    /\ lookup = None
    /\ entries = <<>>
    /\ NoRequest
    /\ NoLoad
    /\ NoCacheUse

\* One call parse_jsonl_line(line), the remote table being remote.
ParseCall(remote) ==
    /\ parsed = None
    /\ parsed' = Some(ParseJsonlLine(Val(line), pricing_log, rate_log, upstream_log, remote))
    /\ UNCHANGED <<viewVars, logVars, lookup, line, loadVars, cacheVars, threadVars>>

NextParse == \E remote \in RemoteTables : ParseCall(remote)

SpecParse == InitParse /\ [][NextParse]_vars

-----------------------------------------------------------------------------
(* Properties of the parser                                                *)

\* C7: parse_jsonl_line never raises: it returns a UsageEntry or None.
C7_NeverRaises ==
    parsed # None => Val(parsed).kind \in {"entry", "skip"}

\* C9: every entry returned has non-negative integer token counts of all four
\* kinds, and input_tokens + output_tokens > 0.
C9_TokenInvariant ==
    (parsed # None /\ Val(parsed).kind = "entry") =>
        LET e == Val(parsed).entry
        IN  /\ \A f \in {"input_tokens", "output_tokens", "cache_creation_tokens",
                         "cache_read_tokens"} : e[f].kind = "int" /\ e[f].n >= 0
            /\ e.input_tokens.n + e.output_tokens.n > 0

\* The channel-switch log is absent or has no records.
NoSwitchRecords == ~upstream_log.exists \/ upstream_log.lines = <<>>

\* The records of the channel-rate history that are of "official" and in effect
\* at time t.
OfficialRatesAt(t) ==
    {i \in 1..Len(rate_log.lines) :
        rate_log.lines[i].key = "official" /\ rate_log.lines[i].dt <= t}

\* C10 as stated: without channel-switch records every entry has upstream
\* "official" and cost_usd = original_cost_usd * 1.0, whatever the channel-rate
\* history holds.
C10_DefaultChannelAnyHistory ==
    (parsed # None /\ Val(parsed).kind = "entry" /\ NoSwitchRecords) =>
        LET e == Val(parsed).entry
        IN  e.upstream = "official" /\ e.cost_usd = e.original_cost_usd

\* C10 amended: without channel-switch records every entry has upstream
\* "official"; cost_usd = original_cost_usd * 1.0 when the channel-rate history
\* holds no record of "official" in effect at the entry's timestamp, and
\* otherwise original_cost_usd times the multiplier of the latest such record.
C10_DefaultChannel ==
    (parsed # None /\ Val(parsed).kind = "entry" /\ NoSwitchRecords) =>
        LET e == Val(parsed).entry
            official == OfficialRatesAt(e.timestamp)
        IN  /\ e.upstream = "official"
            /\ official = {} => e.cost_usd = e.original_cost_usd
            /\ official # {} =>
                  \E i \in official :
                      /\ \A j \in official : rate_log.lines[j].dt <= rate_log.lines[i].dt
                      /\ e.cost_usd * RateScale = e.original_cost_usd * rate_log.lines[i].value

\* Witness of C10: no channel-switch log, a channel-rate history that holds a
\* record of another channel only, and an entry priced by the cost calculator.
C10_Witness ==
    /\ parsed # None /\ Val(parsed).kind = "entry"
    /\ ~upstream_log.exists
    /\ rate_log.exists /\ OfficialRatesAt(Val(parsed).entry.timestamp) = {}
    /\ Val(line).costUSD = JAbsent
    /\ Val(parsed).entry.upstream = "official"
    /\ Val(parsed).entry.cost_usd = Val(parsed).entry.original_cost_usd
    /\ Val(parsed).entry.cost_usd > 0

-----------------------------------------------------------------------------
(* Specification of the loader: a few files, readable or failing in one of *)
(* three ways, are loaded in one call.                                     *)

\* A well-formed line of the UTC time t, priced by its costUSD field.
GoodLine(t) ==
    ObjectLine([kind |-> "valid", time |-> t], JInt(2 * RateScale), "object",
               "claude-opus-4-5-20251101", "object", JInt(1), JInt(1), JAbsent, JAbsent)

LoadLines ==
    {GoodLine(t) : t \in 0..MaxParseTime} \cup {OtherLine("invalid"), OtherLine("nonobject")}

File(jsonl, status, lines) == [jsonl |-> jsonl, status |-> status, lines |-> lines]

ReadFailures == {"permission", "missing", "encoding"}

InitLoad ==
    /\ \E n \in 0..MaxFiles :
          \E f \in [1..n -> BOOLEAN \X ({"ok"} \cup ReadFailures)] :
             \E l \in [1..n -> UNION {[1..k -> LoadLines] : k \in 0..MaxLines}] :
                /\ \A i \in 1..n : f[i][2] \in {"permission", "missing"} => l[i] = <<>>
                /\ \A i \in 1..n : ~f[i][1] => l[i] = <<>> /\ f[i][2] = "ok"
                /\ files = [i \in 1..n |-> File(f[i][1], f[i][2], l[i])]
    /\ loaded = None
    /\ NoLogs
    /\ lookup = None
    /\ entries = <<>>
    /\ NoRequest
    /\ NoParse
    /\ NoCacheUse

\* One call load_jsonl_files(dirs), the remote table being remote.
LoadCall(remote) ==
    /\ loaded = None
    /\ loaded' = Some(LoadJsonlFiles(files, pricing_log, rate_log, upstream_log, remote))
    /\ UNCHANGED <<viewVars, logVars, lookup, parseVars, files, cacheVars, threadVars>>

NextLoad == \E remote \in RemoteTables : LoadCall(remote)

SpecLoad == InitLoad /\ [][NextLoad]_vars

-----------------------------------------------------------------------------
(* Properties of the loader                                                *)

\* The files whose reading fails.
FailingFiles == {i \in 1..Len(files) : files[i].jsonl /\ files[i].status \in ReadFailures}

\* No line of any file makes parse_jsonl_line raise.
EveryLineParses ==
    \A i \in 1..Len(files) : \A k \in 1..Len(files[i].lines) :
        files[i].lines[k].json # "nonobject"

RECURSIVE EntriesOfReadableFiles(_)
\* The entries of the lines of the first n files, the failing files left out.
EntriesOfReadableFiles(n) ==
    IF n = 0 THEN <<>>
    ELSE EntriesOfReadableFiles(n - 1)
         \o (IF files[n].jsonl /\ files[n].status = "ok"
             THEN [k \in 1..Len(SelectSeq(files[n].lines, LAMBDA l : l.json = "object")) |->
                      ParseJsonlLine(SelectSeq(files[n].lines, LAMBDA l : l.json = "object")[k],
                                     pricing_log, rate_log, upstream_log, <<>>).entry]
             ELSE <<>>)

\* C8: a load is never aborted by the failure of reading a file: when no line
\* makes the parser raise, the load returns the entries of the other files,
\* sorted ascending by timestamp.
C8_FileFailuresSwallowed ==
    (loaded # None /\ EveryLineParses) =>
        /\ Val(loaded).kind = "returned"
        /\ Val(loaded).entries = SortByTimestamp(EntriesOfReadableFiles(Len(files)))

-----------------------------------------------------------------------------
(* Specification of the caches: the time advances, the history logs are   *)
(* created and appended to, the remote table changes, and the loaders and  *)
(* the fetch are called one at a time.                                     *)

\* The clock advances by half a TTL at a time.
ClockStep == UPSTREAM_CACHE_TTL \div 2

CacheLogTimes == 1..2

\* Line n of history h, taking effect at dt.
HistoryLine(h, dt, n) ==
    IF h = "pricing" THEN [dt |-> dt, key |-> "claude-opus-4-5-20251101", value |-> PriceRow(n)]
    ELSE IF h = "rate" THEN [dt |-> dt, key |-> "claude", value |-> n]
    ELSE [dt |-> dt, key |-> "claude"]

\* A table that prices the same model differently.
NewerTable ==
    [m \in {"claude-opus-4-5-20251101"} |->
        [input |-> 500, output |-> 500, cache_creation |-> 500, cache_read |-> 500]]

RemoteSources ==
    {Unreachable} \cup {[up |-> TRUE, table |-> t] : t \in RemoteTables \cup {NewerTable}}

InitCache ==
    /\ time = StartTime
    /\ remote_source \in RemoteSources
    /\ ColdCaches
    /\ NoLogs
    /\ NoCalls
    /\ lookup = None
    /\ entries = <<>>
    /\ NoRequest
    /\ NoParse
    /\ NoLoad

\* Time passes.
Tick ==
    /\ time < StartTime + MaxTicks * ClockStep
    /\ time' = time + ClockStep
    /\ UNCHANGED <<viewVars, logVars, lookup, parseVars, loadVars, history_cache,
                   history_cache_time, remote_source, pricing_cache, last_load, read,
                   threadVars>>

\* The log of history h after its writer has created it or appended a line.
Written(h, dt) ==
    IF ~LogOf(h).exists THEN LogFile(TRUE, <<>>)
    ELSE LogFile(TRUE, Append(LogOf(h).lines, HistoryLine(h, dt, Len(LogOf(h).lines) + 1)))

\* The writer of the log of history h creates the file, or appends a line.
WriteLog(h, dt) ==
    /\ Len(LogOf(h).lines) < MaxFileLines
    /\ pricing_log' = IF h = "pricing" THEN Written(h, dt) ELSE pricing_log
    /\ rate_log' = IF h = "rate" THEN Written(h, dt) ELSE rate_log
    /\ upstream_log' = IF h = "upstream" THEN Written(h, dt) ELSE upstream_log
    /\ UNCHANGED <<viewVars, lookup, parseVars, loadVars, cacheVars, threadVars>>

\* The remote table changes, or the source comes up or goes down.
ChangeRemote(source) ==
    /\ source # remote_source
    /\ remote_source' = source
    /\ UNCHANGED <<viewVars, logVars, lookup, parseVars, loadVars, time, history_cache,
                   history_cache_time, pricing_cache, last_load, read, threadVars>>

\* The time since the last read of the source of cache c, None before the first.
Age(c) == IF last_load[c] = None THEN None ELSE Some(time - Val(last_load[c]))

\* One call of the loader of history h.
LoadHistoryCall(h) ==
    LET r == LoadHistoryCached(LogOf(h), history_cache[h], history_cache_time[h], time)
    IN  /\ history_cache' = [history_cache EXCEPT ![h] = r.cache]
        /\ history_cache_time' = [history_cache_time EXCEPT ![h] = r.cache_time]
        /\ last_load' = IF r.touched THEN [last_load EXCEPT ![h] = Some(time)] ELSE last_load
        /\ read' = Some([cache |-> h, age |-> Age(h), touched |-> r.touched,
                         before |-> history_cache[h], value |-> r.records,
                         after |-> r.cache, available |-> LogOf(h).exists,
                         fresh |-> LoadHistory(LogOf(h))])
        /\ UNCHANGED <<viewVars, logVars, lookup, parseVars, loadVars, time, remote_source,
                       pricing_cache, threadVars>>

\* One call _fetch_litellm_pricing().
FetchLitellmPricingCall ==
    LET r == FetchLitellmPricing(remote_source, pricing_cache)
    IN  /\ pricing_cache' = r.cache
        /\ last_load' = IF r.touched THEN [last_load EXCEPT !["remote"] = Some(time)]
                        ELSE last_load
        /\ read' = Some([cache |-> "remote", age |-> Age("remote"), touched |-> r.touched,
                         before |-> pricing_cache, value |-> r.table,
                         after |-> r.cache, available |-> remote_source.up,
                         fresh |-> remote_source.table])
        /\ UNCHANGED <<viewVars, logVars, lookup, parseVars, loadVars, time, history_cache,
                       history_cache_time, remote_source, threadVars>>

NextCache ==
    \/ Tick
    \/ \E dt \in CacheLogTimes : WriteLog("pricing", dt)
    \/ \E source \in RemoteSources : ChangeRemote(source)
    \/ LoadHistoryCall("pricing")
    \/ FetchLitellmPricingCall

SpecCache == InitCache /\ [][NextCache]_vars

-----------------------------------------------------------------------------
(* Properties of the caches                                                *)

\* C11: a read made less than the TTL after the last load of its cache is
\* served from the snapshot without reading the source; a read made at or after
\* the TTL (or before any load), the source being there, reads the source,
\* returns what it holds and leaves it in the cache.
C11_ReadCheckRefresh ==
    read # None =>
        LET r == Val(read)
        IN  /\ (r.age # None /\ Val(r.age) < UPSTREAM_CACHE_TTL) =>
                  (~r.touched /\ r.value = r.before /\ r.after = r.before)
            /\ ((r.age = None \/ Val(r.age) >= UPSTREAM_CACHE_TTL) /\ r.available) =>
                  (r.touched /\ r.value = r.fresh /\ r.after = r.fresh)

-----------------------------------------------------------------------------
(* Specification of concurrent calls: two threads run _load_rate_history   *)
(* and _load_upstream_log step by step, each read or write of a module     *)
(* global and each read of the file being one step, while the clock        *)
(* advances and the writer of the log appends lines.  The two loaders      *)
(* share no global and no file, so a behaviour follows the calls of one of *)
(* them.                                                                   *)

ThreadHistories == {"rate", "upstream"}

\* No thread has entered the loader of a history other than h.
OnlyCalled(h) == \A q \in Threads : call[q].history \in {"", h}

\* Some thread has entered the loader of history h.
InUse(h) == \E q \in Threads : call[q].history = h

InitThreads ==
    /\ time = StartTime
    /\ remote_source = Unreachable
    /\ ColdCaches
    /\ NoLogs
    /\ NoCalls
    /\ lookup = None
    /\ entries = <<>>
    /\ NoRequest
    /\ NoParse
    /\ NoLoad

\* What a thread step leaves alone besides pc, call and the history caches.
ThreadFrame ==
    UNCHANGED <<viewVars, logVars, lookup, parseVars, loadVars, time, remote_source,
                pricing_cache, last_load, read>>

\* Thread p enters the loader of history h: now = time.time().
Enter(p, h) ==
    /\ pc[p] \in {"idle"} \cup ReturnPoints
    /\ OnlyCalled(h)
    /\ pc' = [pc EXCEPT ![p] = "test_cache"]
    /\ call' = [call EXCEPT ![p] = [NoLocals EXCEPT !.history = h, !.now = time]]
    /\ UNCHANGED <<history_cache, history_cache_time>>
    /\ ThreadFrame

\* `if _cache and ...`: the truth value of the cached list.
TestCache(p) ==
    /\ pc[p] = "test_cache"
    /\ pc' = [pc EXCEPT ![p] = IF history_cache[call[p].history] # <<>>
                               THEN "test_time" ELSE "exists"]
    /\ UNCHANGED <<call, history_cache, history_cache_time>>
    /\ ThreadFrame

\* `... and (now - _cache_time) < UPSTREAM_CACHE_TTL`
TestTime(p) ==
    /\ pc[p] = "test_time"
    /\ pc' = [pc EXCEPT ![p] =
                 IF (call[p].now - history_cache_time[call[p].history]) < UPSTREAM_CACHE_TTL
                 THEN "return_cache" ELSE "exists"]
    /\ UNCHANGED <<call, history_cache, history_cache_time>>
    /\ ThreadFrame

\* `return _cache`
ReturnCache(p) ==
    /\ pc[p] = "return_cache"
    /\ pc' = [pc EXCEPT ![p] = "returned_cache"]
    /\ call' = [call EXCEPT ![p].returned = Some(history_cache[call[p].history])]
    /\ UNCHANGED <<history_cache, history_cache_time>>
    /\ ThreadFrame

\* `if not log_path.exists(): return []`, and otherwise the file is opened.
Exists(p) ==
    /\ pc[p] = "exists"
    /\ IF LogOf(call[p].history).exists
       THEN /\ pc' = [pc EXCEPT ![p] = "read"]
            /\ UNCHANGED call
       ELSE /\ pc' = [pc EXCEPT ![p] = "returned_missing"]
            /\ call' = [call EXCEPT ![p].returned = Some(<<>>)]
    /\ UNCHANGED <<history_cache, history_cache_time>>
    /\ ThreadFrame

\* One iteration of `for line in f`: the next line is appended to records; at
\* the end of the file the loop is left and records is sorted.
ReadLine(p) ==
    /\ pc[p] = "read"
    /\ LET lines == LogOf(call[p].history).lines
           position == call[p].position
       IN  IF position < Len(lines)
           THEN /\ call' = [call EXCEPT ![p].records = Append(@, lines[position + 1]),
                                        ![p].position = position + 1]
                /\ UNCHANGED pc
           ELSE /\ call' = [call EXCEPT ![p].records = PublishedOrder(@)]
                /\ pc' = [pc EXCEPT ![p] = "store_cache"]
    /\ UNCHANGED <<history_cache, history_cache_time>>
    /\ ThreadFrame

\* `_cache = records`
StoreCache(p) ==
    /\ pc[p] = "store_cache"
    /\ history_cache' = [history_cache EXCEPT ![call[p].history] = call[p].records]
    /\ pc' = [pc EXCEPT ![p] = "store_time"]
    /\ UNCHANGED <<call, history_cache_time>>
    /\ ThreadFrame

\* `_cache_time = now`, then `return records`
StoreTime(p) ==
    /\ pc[p] = "store_time"
    /\ history_cache_time' = [history_cache_time EXCEPT ![call[p].history] = call[p].now]
    /\ pc' = [pc EXCEPT ![p] = "returned_records"]
    /\ call' = [call EXCEPT ![p].returned = Some(call[p].records)]
    /\ UNCHANGED history_cache
    /\ ThreadFrame

NextThreads ==
    \/ Tick
    \/ \E h \in ThreadHistories, dt \in CacheLogTimes : InUse(h) /\ WriteLog(h, dt)
    \/ \E p \in Threads :
          \/ \E h \in ThreadHistories : Enter(p, h)
          \/ TestCache(p)
          \/ TestTime(p)
          \/ ReturnCache(p)
          \/ Exists(p)
          \/ ReadLine(p)
          \/ StoreCache(p)
          \/ StoreTime(p)

SpecThreads == InitThreads /\ [][NextThreads]_vars

-----------------------------------------------------------------------------
(* Properties of concurrent calls                                          *)

SortedByDt(records) ==
    \A i, j \in 1..Len(records) : i < j => records[i].dt <= records[j].dt

\* records holds exactly the first n lines of the log of history h, in some order.
HoldsFirstLines(records, h, n) ==
    /\ Len(records) = n
    /\ \E f \in [1..n -> 1..n] :
          /\ \A i, j \in 1..n : i # j => f[i] # f[j]
          /\ \A i \in 1..n : records[i] = LogOf(h).lines[f[i]]

\* records is a complete snapshot of history h: the records of the log as it
\* was at some moment (the logs are append-only), sorted by time.
CompleteSnapshot(records, h) ==
    /\ SortedByDt(records)
    /\ \E n \in 0..Len(LogOf(h).lines) : HoldsFirstLines(records, h, n)

\* C12: under every interleaving each list a history loader returns, and each
\* list a cache holds, is a complete, time-sorted snapshot of its log.
C12_CompleteSnapshots ==
    /\ \A h \in Histories : CompleteSnapshot(history_cache[h], h)
    /\ \A p \in Threads :
          pc[p] \in ReturnPoints => CompleteSnapshot(Val(call[p].returned), call[p].history)

\* Witness of C12: one thread stands between its two writes, having stored a
\* list of two records that the file holds in the other order, and the other
\* thread, which entered after the first, has been served that list from the
\* cache.
C12_Witness ==
    \E p, q \in Threads :
        /\ pc[p] = "store_time"
        /\ pc[q] = "returned_cache"
        /\ call[q].history = call[p].history
        /\ call[q].now > call[p].now
        /\ Val(call[q].returned) = call[p].records
        /\ history_cache[call[p].history] = call[p].records
        /\ Len(call[p].records) = 2
        /\ call[p].records # LogOf(call[p].history).lines

====
